---- MODULE Spec2Model ----
(***************************************************************************)
(* The VolcEngineMaaS adapter of dsp/modules/volcengine_maas.py: option    *)
(* normalisation (_prepare_params), request issuance (basic_request), the  *)
(* backoff retry loop around it (request) and the call history.            *)
(*                                                                         *)
(* Encoding.  A Python dict whose insertion order matters (the caller's    *)
(* keyword arguments) is a sequence of <<key, value>> pairs with distinct  *)
(* keys; a dict whose order does not matter is a TLA+ function from keys   *)
(* to values.  Real-valued options (temperature, top_p) are written in     *)
(* tenths: 7 stands for 0.7 and 0 for 0.0.  A message text is the          *)
(* sequence of its characters.  Time is in whole seconds, so a pause is a  *)
(* whole number of seconds.  The retry loop is that of                     *)
(* backoff.on_exception: tries and elapsed are sampled before each         *)
(* attempt, the give-up test runs on the failed attempt's exception and    *)
(* the sampled elapsed, the pause is the jittered wait value cut to        *)
(* max_time - elapsed, and the loop sleeps through it before it samples    *)
(* the clock and calls basic_request again.  A remote call takes a         *)
(* positive time and may never answer: self.maas.chat is called without a  *)
(* timeout.  The adapter runs in one thread: while an invocation runs no   *)
(* other call is made on it.                                               *)
(***************************************************************************)
EXTENDS Integers, Sequences, FiniteSets, TLC

VARIABLES
    endpoint_id,   \* self.endpoint_id
    kwargs,        \* self.kwargs, the default-options mapping
    history,       \* self.history
    method,        \* the public method the running invocation came in by:
                   \* "request" (__call__, request) or "basic_request"
    pc,            \* "idle", "attempt" while a request is with the remote service,
                   \* "backoff" while the retry loop sleeps
    prompt,        \* the running invocation's prompt
    options,       \* the running invocation's keyword arguments
    req,           \* the last request handed to self.maas.chat
    tries,         \* attempts the running invocation has made: the retry
                   \* loop's tries counter, 1 for a bare basic_request
    elapsed,       \* the retry loop's elapsed, sampled before each attempt
    seconds,       \* the pause the retry loop is sleeping through
    outcome,       \* what the last finished invocation gave its caller
    last_exc,      \* the exception of the running invocation's last failed attempt
    calls,         \* invocations started
    completed,     \* invocations that returned a result
    prepared       \* the last direct _prepare_params call: its input and output

vars == <<endpoint_id, kwargs, history, method, pc, prompt, options, req, tries,
          elapsed, seconds, outcome, last_exc, calls, completed, prepared>>

----------------------------------------------------------------------------
(* Bounds of the model. *)

\* Invocations made in one behaviour.
MaxCalls == 2

\* Longest options mapping handed to a direct _prepare_params call.
MaxItems == 2

\* Seconds a remote call takes before it answers or fails, a quick call
\* and a slow one: the clock moves on with every attempt.
QuickCallSeconds == 250
SlowCallSeconds == 499

----------------------------------------------------------------------------
(* Program constants, real-valued ones in tenths. *)

\* temperature default 0.7
DefaultTemperature == 7

\* temperature forced by the multi-completion rule, 0.7
ForcedTemperature == 7

\* the retry loop's max_time
MAX_TIME == 1000

\* The built-in defaults of __init__.
BuiltinDefaults ==
    [k \in {"max_new_tokens", "min_new_tokens", "temperature", "top_p",
            "top_k", "max_prompt_tokens"} |->
        CASE k = "max_new_tokens" -> 1000
          [] k = "min_new_tokens" -> 1
          [] k = "temperature" -> DefaultTemperature
          [] k = "top_p" -> 9
          [] k = "top_k" -> 0
          [] k = "max_prompt_tokens" -> 32768]

\* params_mapping of _prepare_params.
params_mapping == [k \in {"max_tokens"} |-> "max_output_tokens"]

\* The text giveup_hdlr looks for: "rate limits".
RateLimits == <<"r", "a", "t", "e", " ", "l", "i", "m", "i", "t", "s">>

----------------------------------------------------------------------------
(* Dict helpers. *)

\* d.update(e) on unordered dicts, also {**d, **e}: e wins on a shared key.
Update(d, e) ==
    [k \in (DOMAIN d) \cup (DOMAIN e) |-> IF k \in DOMAIN e THEN e[k] ELSE d[k]]

\* The dict without key k.
Without(d, k) == [j \in (DOMAIN d) \ {k} |-> d[j]]

\* The keys of an ordered dict.
ItemKeys(items) == {items[i][1] : i \in 1..Len(items)}

\* params_mapping.get(k, k)
MappedKey(k) == IF k \in DOMAIN params_mapping THEN params_mapping[k] ELSE k

\* {params_mapping.get(k, k): v for k, v in parameters.items()}: built in the
\* order of parameters.items(), so of two items renamed to one key the later
\* one's value stays.
RECURSIVE RenameKeys(_)
RenameKeys(parameters) ==
    IF parameters = <<>> THEN <<>>
    ELSE LET last == parameters[Len(parameters)]
         IN  Update(RenameKeys(SubSeq(parameters, 1, Len(parameters) - 1)),
                    [k \in {MappedKey(last[1])} |-> last[2]])

----------------------------------------------------------------------------
(* _prepare_params, statement by statement.  A step's state is the pair    *)
(* of self.kwargs and the local params, with aliased telling whether the   *)
(* two names denote one dict object.                                       *)

\* The mutation: self.kwargs.update(params); params = self.kwargs
MergeInPlace(self_kwargs, params) ==
    [self_kwargs |-> Update(self_kwargs, params),
     params |-> Update(self_kwargs, params),
     aliased |-> TRUE]

\* params = {**self.kwargs, **params}: a new dict, self.kwargs untouched.
MergeDefaults(self_kwargs, params) ==
    [self_kwargs |-> self_kwargs,
     params |-> Update(self_kwargs, params),
     aliased |-> FALSE]

\* The mutation: n = params.get("n", None), which leaves the key in params.
PeekN(st) == st

\* n = params.pop("n", None): the key leaves params.
PopN(st) ==
    [self_kwargs |-> IF st.aliased THEN Without(st.self_kwargs, "n") ELSE st.self_kwargs,
     params |-> Without(st.params, "n"),
     aliased |-> st.aliased]

\* The mutation: the rule applied whenever the temperature is 0.0, n or not.
AlwaysForceTemperature(hasN, n, temperature) == temperature = 0

\* n is not None and n > 1 and params['temperature'] == 0.0
ForcesTemperature(hasN, n, temperature) == hasN /\ n > 1 /\ temperature = 0

\* params['temperature'] = 0.7 under the condition of line 100.
SetTemperature(st, force) ==
    IF ~force THEN st
    ELSE [self_kwargs |-> IF st.aliased
                          THEN [st.self_kwargs EXCEPT !["temperature"] = ForcedTemperature]
                          ELSE st.self_kwargs,
          params |-> [st.params EXCEPT !["temperature"] = ForcedTemperature],
          aliased |-> st.aliased]

\* The mutation: return params, unfiltered.
NoFilter(params, self_kwargs) == params

\* {k: params[k] for k in set(params.keys() & set(self.kwargs.keys()))}
FilterKnown(params, self_kwargs) ==
    [k \in (DOMAIN params) \cap (DOMAIN self_kwargs) |-> params[k]]

\* The one element of a one-element set; a value drawn from such a set is
\* worked out once, however often it is used.
Only(S) == CHOOSE y \in S : TRUE

\* Line 102: the dict returned, beside self.kwargs as it then is.
PrepareReturn(forced) ==
    [result |-> FilterKnown(forced.params, forced.self_kwargs),
     self_kwargs |-> forced.self_kwargs]

\* Lines 100-102, from the state before and after the pop of line 99.
PrepareFromPop(merged, popped) ==
    Only({ PrepareReturn(forced) :
             forced \in { SetTemperature(popped,
                              ForcesTemperature("n" \in DOMAIN merged.params,
                                                IF "n" \in DOMAIN merged.params
                                                THEN merged.params["n"] ELSE 0,
                                                popped.params["temperature"])) } })

\* Lines 99-102, from the state after the merge of line 97.
PrepareFromMerge(merged) ==
    Only({ PrepareFromPop(merged, popped) : popped \in { PopN(merged) } })

\* One run of _prepare_params: the dict it returns and self.kwargs after it.
PrepareRun(self_kwargs, parameters) ==
    Only({ PrepareFromMerge(merged) :
             merged \in { MergeDefaults(self_kwargs, RenameKeys(parameters)) } })

\* The dict _prepare_params returns.
_prepare_params(self_kwargs, parameters) == PrepareRun(self_kwargs, parameters).result

----------------------------------------------------------------------------
(* Inputs. *)

\* Endpoint identifiers given to the constructor.
Endpoints == {"ep-1"}

\* The **kwargs given to the constructor.
CtorOverrides ==
    { <<>>,
      [k \in {"n", "temperature"} |-> IF k = "n" THEN 2 ELSE 0],
      [k \in {"max_output_tokens"} |-> 64] }

\* One keyword argument of a call.
ItemChoices ==
    { <<"max_tokens", 100>>, <<"max_output_tokens", 256>>,
      <<"n", 1>>, <<"n", 2>>,
      <<"temperature", 0>>, <<"temperature", 5>>,
      <<"stop", 3>>, <<"top_k", 40>> }

\* Ordered dicts of at most n items: no key twice.
RECURSIVE ItemSeqs(_)
ItemSeqs(n) ==
    IF n = 0 THEN { <<>> }
    ELSE LET shorter == ItemSeqs(n - 1)
         IN  shorter \cup
             { Append(s, it) : s \in {t \in shorter : Len(t) = n - 1},
                               it \in ItemChoices }

\* Distinct keys, as in any dict.
WellFormed(items) == Cardinality(ItemKeys(items)) = Len(items)

\* The options mappings handed to direct _prepare_params calls.
ParamInputs == {s \in ItemSeqs(MaxItems) : WellFormed(s)}

\* Prompts of the invocations.
Prompts == {"hello"}

\* Completion texts the remote service answers with.
Texts == {"hi", "ok"}

\* The keyword arguments of the invocations.
CallOptions ==
    { <<>>,
      << <<"n", 2>>, <<"temperature", 0>> >>,
      << <<"max_tokens", 100>>, <<"stop", 3>> >> }

\* Message texts of the remote service's failures: "rate limits",
\* "hit rate limits!", "Rate limits", "rate limit", "denied".
Messages ==
    { RateLimits,
      <<"h", "i", "t", " ">> \o RateLimits \o <<"!">>,
      <<"R", "a", "t", "e", " ", "l", "i", "m", "i", "t", "s">>,
      <<"r", "a", "t", "e", " ", "l", "i", "m", "i", "t">>,
      <<"d", "e", "n", "i", "e", "d">> }

\* A MaasException, which carries a message attribute.
MaasException(message) == [type |-> "MaasException", message |-> message]

\* Any other exception of the request procedure: it has no message attribute.
OtherException == [type |-> "ConnectionError"]

\* What an attempt can raise.
Exceptions == {MaasException(m) : m \in Messages} \cup {OtherException}

\* No exception yet.
NoException == [type |-> "none"]

\* The AttributeError of reading a missing attribute.
AttributeError == [type |-> "AttributeError"]

----------------------------------------------------------------------------
(* The retry policy. *)

\* sub in s, for Python strings.
Contains(sub, s) ==
    \E i \in 0..(Len(s) - Len(sub)) : SubSeq(s, i + 1, i + Len(sub)) = sub

\* The mutation: the test inverted, giving up on rate limits alone.
giveup_inverted(details) ==
    IF "message" \notin DOMAIN details
    THEN [raises |-> TRUE, exc |-> AttributeError]
    ELSE [raises |-> FALSE, value |-> Contains(RateLimits, details.message)]

\* giveup_hdlr: False when the message holds "rate limits", else True; reading
\* details.message raises AttributeError when the exception has no such attribute.
giveup_hdlr(details) ==
    IF "message" \notin DOMAIN details
    THEN [raises |-> TRUE, exc |-> AttributeError]
    ELSE [raises |-> FALSE, value |-> ~Contains(RateLimits, details.message)]

\* backoff.expo: the wait value before retry number n, 1, 2, 4, ...
Expo(n) == 2 ^ (n - 1)

\* The default jitter draws the pause uniformly from 0 to value.
JitterOutcomes(value) == 0..value

\* What a failed attempt may have taken.
CallDurations == {QuickCallSeconds, SlowCallSeconds}

\* The pause never runs past max_time, counted from the sampled elapsed.
Pause(jittered, sampled) ==
    IF jittered < MAX_TIME - sampled THEN jittered ELSE MAX_TIME - sampled

\* The mutation: the max_time test left out.
max_time_unchecked(sampled) == FALSE

\* The loop's max_time test.
max_time_exceeded(sampled) == sampled >= MAX_TIME

----------------------------------------------------------------------------
(* basic_request. *)

\* The req dict and the endpoint it goes to.
BuildRequest(ep, p, params) ==
    [endpoint |-> ep,
     parameters |-> params,
     messages |-> << [role |-> "user", content |-> p] >>]

\* The mutation: the prompt recorded as the completion.
HistoryEntryEcho(p, text, kw) ==
    [prompt |-> p,
     response |-> [prompt |-> p, choices |-> <<p>>],
     kwargs |-> kw,
     raw_kwargs |-> kw]

\* The history dict of a successful call.
HistoryEntry(p, text, kw) ==
    [prompt |-> p,
     response |-> [prompt |-> p, choices |-> <<text>>],
     kwargs |-> kw,
     raw_kwargs |-> kw]

\* The mutation: a failed attempt recorded too.
RecordFailure(h, p, kw) == Append(h, HistoryEntry(p, p, kw))

\* self.history after a failed attempt: the raise comes before the append.
HistoryAfterFailure(h, p, kw) == h

\* No request, no outcome, no direct call yet.
NoRequest == [endpoint |-> "none"]
NoOutcome == [kind |-> "none"]
NotPrepared == [called |-> FALSE]

----------------------------------------------------------------------------
(* The state machine. *)

\* __init__: the built-in defaults overlaid by the constructor's **kwargs,
\* an empty history.
Init ==
    /\ endpoint_id \in Endpoints
    /\ \E overrides \in CtorOverrides : kwargs = Update(BuiltinDefaults, overrides)
    /\ history = <<>>
    /\ method = "request"
    /\ pc = "idle"
    /\ prompt = ""
    /\ options = <<>>
    /\ req = NoRequest
    /\ tries = 0
    /\ elapsed = 0
    /\ seconds = 0
    /\ outcome = NoOutcome
    /\ last_exc = NoException
    /\ calls = 0
    /\ completed = 0
    /\ prepared = NotPrepared

\* One attempt of request: basic_request up to self.maas.chat.
StartAttempt(p, kw) ==
    \E run \in {PrepareRun(kwargs, kw)} :
        /\ kwargs' = run.self_kwargs
        /\ req' = BuildRequest(endpoint_id, p, run.result)
        /\ pc' = "attempt"

\* An invocation that came in by the public method named by starts: its
\* first attempt.
Invoke(by, p, kw) ==
    /\ pc = "idle"
    /\ calls < MaxCalls
    /\ calls' = calls + 1
    /\ method' = by
    /\ prompt' = p
    /\ options' = kw
    /\ tries' = 1
    /\ elapsed' = 0
    /\ seconds' = 0
    /\ outcome' = NoOutcome
    /\ last_exc' = NoException
    /\ prepared' = NotPrepared
    /\ StartAttempt(p, kw)
    /\ UNCHANGED <<endpoint_id, history, completed>>

\* __call__(prompt, only_completed, return_sorted, **kwargs): request, the
\* retry loop around basic_request.
Call(p, only_completed, return_sorted, kw) == Invoke("request", p, kw)

\* basic_request(prompt, **kwargs) called by itself: one attempt, outside
\* the retry loop.
CallBasicRequest(p, kw) == Invoke("basic_request", p, kw)

\* self.maas.chat answers: the history grows and the text is returned.
Respond(text) ==
    /\ pc = "attempt"
    /\ history' = Append(history, HistoryEntry(prompt, text, options))
    /\ outcome' = [kind |-> "return", value |-> <<text>>]
    /\ completed' = completed + 1
    /\ pc' = "idle"
    /\ UNCHANGED <<endpoint_id, method, kwargs, prompt, options, req, tries, elapsed,
                   seconds, last_exc, calls, prepared>>

\* The one attempt of a bare basic_request raises e: nothing catches it but
\* the except clause that raises it again.
FailDirect(e) ==
    /\ pc = "attempt"
    /\ method = "basic_request"
    /\ history' = HistoryAfterFailure(history, prompt, options)
    /\ last_exc' = e
    /\ outcome' = [kind |-> "raise", exc |-> e]
    /\ pc' = "idle"
    /\ UNCHANGED <<endpoint_id, method, kwargs, prompt, options, req, tries, elapsed,
                   seconds, calls, completed, prepared>>

\* The attempt raises e and the give-up handler itself raises.
FailHandler(e) ==
    /\ pc = "attempt"
    /\ method = "request"
    /\ giveup_hdlr(e).raises
    /\ history' = HistoryAfterFailure(history, prompt, options)
    /\ last_exc' = e
    /\ outcome' = [kind |-> "raise", exc |-> giveup_hdlr(e).exc]
    /\ pc' = "idle"
    /\ UNCHANGED <<endpoint_id, method, kwargs, prompt, options, req, tries, elapsed,
                   seconds, calls, completed, prepared>>

\* The attempt raises e and the loop gives up: e is raised again.
FailGiveUp(e) ==
    /\ pc = "attempt"
    /\ method = "request"
    /\ ~giveup_hdlr(e).raises
    /\ giveup_hdlr(e).value \/ max_time_exceeded(elapsed)
    /\ history' = HistoryAfterFailure(history, prompt, options)
    /\ last_exc' = e
    /\ outcome' = [kind |-> "raise", exc |-> e]
    /\ pc' = "idle"
    /\ UNCHANGED <<endpoint_id, method, kwargs, prompt, options, req, tries, elapsed,
                   seconds, calls, completed, prepared>>

\* The attempt raises e and the loop goes on: it draws the pause, tells
\* backoff_hdlr, which prints it, and goes to sleep.
FailRetry(e) ==
    /\ pc = "attempt"
    /\ method = "request"
    /\ ~giveup_hdlr(e).raises
    /\ ~(giveup_hdlr(e).value \/ max_time_exceeded(elapsed))
    /\ history' = HistoryAfterFailure(history, prompt, options)
    /\ last_exc' = e
    /\ \E jittered \in JitterOutcomes(Expo(tries)) :
           seconds' = Pause(jittered, elapsed)
    /\ pc' = "backoff"
    /\ UNCHANGED <<endpoint_id, method, kwargs, prompt, options, req, tries, elapsed,
                   outcome, calls, completed, prepared>>

\* The sleep ends: the loop counts the try, samples the clock, which has
\* moved on by what the failed attempt took and by the pause, and calls
\* basic_request again, which reads self.kwargs now.
Retry ==
    /\ pc = "backoff"
    /\ tries' = tries + 1
    /\ \E took \in CallDurations : elapsed' = elapsed + took + seconds
    /\ seconds' = 0
    /\ StartAttempt(prompt, options)
    /\ UNCHANGED <<endpoint_id, method, history, prompt, options, outcome, last_exc,
                   calls, completed, prepared>>

\* A direct call of _prepare_params.  These calls are made before the
\* invocations (calls = 0) only: every attempt of an invocation runs the same
\* PrepareRun on the same self.kwargs.
CallPrepareParams(parameters) ==
    /\ pc = "idle"
    /\ calls = 0
    /\ prepared' = [called |-> TRUE, parameters |-> parameters,
                    result |-> _prepare_params(kwargs, parameters)]
    /\ kwargs' = PrepareRun(kwargs, parameters).self_kwargs
    /\ UNCHANGED <<endpoint_id, method, history, pc, prompt, options, req, tries, elapsed,
                   seconds, outcome, last_exc, calls, completed>>

Next ==
    \/ \E p \in Prompts, oc \in BOOLEAN, rs \in BOOLEAN, kw \in CallOptions :
           Call(p, oc, rs, kw)
    \/ \E p \in Prompts, kw \in CallOptions : CallBasicRequest(p, kw)
    \/ \E text \in Texts : Respond(text)
    \/ \E e \in Exceptions : FailDirect(e)
    \/ \E e \in Exceptions : FailHandler(e)
    \/ \E e \in Exceptions : FailGiveUp(e)
    \/ \E e \in Exceptions : FailRetry(e)
    \/ Retry
    \/ \E parameters \in ParamInputs : CallPrepareParams(parameters)

\* The adapter under direct _prepare_params calls and invocations.
Spec == Init /\ [][Next]_vars

\* The running attempt ends: the remote call answers or fails.
AttemptEnds ==
    \/ \E text \in Texts : Respond(text)
    \/ \E e \in Exceptions : FailDirect(e)
    \/ \E e \in Exceptions : FailHandler(e)
    \/ \E e \in Exceptions : FailGiveUp(e)
    \/ \E e \in Exceptions : FailRetry(e)

\* The same, where every sleep ends: time.sleep(seconds) returns.  Nothing
\* is assumed of self.maas.chat, which is called without a timeout and may
\* never answer.
FairSpec == Spec /\ WF_vars(Retry)

----------------------------------------------------------------------------
(* Vocabulary of the properties. *)

\* The step in which an attempt of the running invocation succeeds.
ReturnStep == pc = "attempt" /\ pc' = "idle" /\ outcome'.kind = "return"

\* The step in which an attempt of the running invocation fails; last_exc'
\* is then the exception it raised.
FailureStep == pc = "attempt" /\ ~(pc' = "idle" /\ outcome'.kind = "return")

\* A remote-service exception with, or without, the rate-limit indicator.
RateLimited(e) == e.type = "MaasException" /\ Contains(RateLimits, e.message)
NotRateLimited(e) == e.type = "MaasException" /\ ~Contains(RateLimits, e.message)

\* The invocation ended by raising e.
Raised(e) == [kind |-> "raise", exc |-> e]

\* The value of key k in an ordered dict that has it.
ItemValue(items, k) == items[CHOOSE i \in 1..Len(items) : items[i][1] = k][2]

\* The temperature and the n of the merged options of a direct call: the
\* caller's value if given, else the adapter's default.
MergedTemperature ==
    IF "temperature" \in ItemKeys(prepared.parameters)
    THEN ItemValue(prepared.parameters, "temperature")
    ELSE kwargs["temperature"]
MergedHasN == "n" \in ItemKeys(prepared.parameters) \/ "n" \in DOMAIN kwargs
MergedN ==
    IF "n" \in ItemKeys(prepared.parameters)
    THEN ItemValue(prepared.parameters, "n")
    ELSE kwargs["n"]

----------------------------------------------------------------------------
(* The properties. *)

\* C1: an invocation that returns gives a one-element list [t], makes the
\* history exactly one entry longer, and that entry holds the prompt, the
\* prompt again and [t] in its response, and the caller's own options (not the
\* normalized parameters) as kwargs and raw_kwargs.
C1_SuccessIsRecorded ==
    [][ReturnStep =>
          /\ Len(outcome'.value) = 1
          /\ Len(history') = Len(history) + 1
          /\ SubSeq(history', 1, Len(history)) = history
          /\ LET entry == history'[Len(history')]
             IN  /\ entry.prompt = prompt
                 /\ entry.response.prompt = prompt
                 /\ entry.response.choices = outcome'.value
                 /\ entry.kwargs = options
                 /\ entry.raw_kwargs = options]_vars

\* C1 witness: a call with max_tokens returned after a retry; its entry holds
\* the caller's max_tokens while the request's parameters do not.
C1_Witness ==
    /\ pc = "idle" /\ outcome.kind = "return" /\ tries > 1
    /\ "max_tokens" \in ItemKeys(options)
    /\ history[Len(history)].kwargs = options
    /\ history[Len(history)].response.choices = outcome.value
    /\ "max_tokens" \notin DOMAIN req.parameters

\* C2: the history starts empty, is as long as the number of invocations that
\* returned, only ever grows at its end, by the one entry of a returning
\* attempt, and a failed attempt leaves it as it is.
C2_HistoryCountsSuccesses ==
    /\ history = <<>>
    /\ [](Len(history) = completed)
    /\ [][/\ Len(history') >= Len(history)
          /\ SubSeq(history', 1, Len(history)) = history
          /\ Len(history') > Len(history) =>
                 ReturnStep /\ Len(history') = Len(history) + 1
          /\ FailureStep => history' = history]_vars

\* C2 witness: one invocation returned after retries, then one raised.
C2_Witness ==
    /\ pc = "idle" /\ calls = 2 /\ completed = 1 /\ Len(history) = 1
    /\ outcome.kind = "raise" /\ tries > 1

\* C3: a first attempt failing with a remote-service exception whose message
\* lacks "rate limits" ends the invocation at once: no second request, no
\* history entry, that exception raised to the caller.
C3_OtherFailureGivesUp ==
    [][(FailureStep /\ tries = 1 /\ NotRateLimited(last_exc')) =>
          /\ pc' = "idle"
          /\ tries' = 1
          /\ req' = req
          /\ history' = history
          /\ outcome' = Raised(last_exc')]_vars

\* C3 witness: the message "Rate limits", capitalised, ended an invocation
\* after one request.
C3_Witness ==
    /\ pc = "idle" /\ method = "request" /\ tries = 1 /\ history = <<>>
    /\ NotRateLimited(last_exc)
    /\ last_exc.message[1] = "R"
    /\ outcome = Raised(last_exc)

\* An attempt of request failing with a message that holds "rate limits" (a
\* bare basic_request has no retry loop around it) is followed by
\* a pause no longer than what is left of max_time and then by a further
\* attempt, later on the clock, with no history entry, as long as the sampled
\* elapsed time is under max_time, and by that failure raised to the caller
\* once it is not; a result returned is a one-element list.
RetriesUntilCeiling ==
    /\ [][(FailureStep /\ method = "request" /\ RateLimited(last_exc')) =>
             IF elapsed < MAX_TIME
             THEN /\ pc' = "backoff"
                  /\ seconds' \in 0..(MAX_TIME - elapsed)
                  /\ tries' = tries
                  /\ history' = history
             ELSE /\ pc' = "idle"
                  /\ outcome' = Raised(last_exc')]_vars
    /\ [][pc = "backoff" =>
             /\ pc' = "attempt"
             /\ tries' = tries + 1
             /\ elapsed' > elapsed
             /\ req' = req
             /\ history' = history]_vars
    /\ [](pc = "idle" /\ outcome.kind = "return" => Len(outcome.value) = 1)

\* Every invocation ends, returning or raising.
EveryInvocationEnds ==
    pc # "idle" ~> (pc = "idle" /\ outcome.kind \in {"return", "raise"})

\* Every remote call ends: self.maas.chat answers or fails.
EveryRemoteCallEnds == WF_vars(AttemptEnds)

\* C4 as stated: rate-limit failures are retried, pause after pause, until
\* an attempt succeeds or the sampled elapsed time has reached max_time, when
\* the last failure is raised; so every invocation eventually returns or
\* raises.  It fails: a remote call that never answers leaves its invocation
\* waiting for ever, and the adapter sets no timeout on it.
C4_EveryInvocationReturnsOrRaises ==
    RetriesUntilCeiling /\ EveryInvocationEnds

\* C4, corrected: rate-limit failures are retried, pause after pause, until
\* an attempt succeeds or the sampled elapsed time has reached max_time, when
\* the last failure is raised; and if every remote call answers or fails,
\* every invocation eventually returns or raises.
C4_RateLimitRetriesUntilCeiling ==
    RetriesUntilCeiling /\ (EveryRemoteCallEnds => EveryInvocationEnds)

\* C4 witness: rate-limit failures were retried up to the ceiling and the
\* last one was raised.
C4_Witness ==
    /\ pc = "idle" /\ method = "request" /\ tries >= 3 /\ elapsed >= MAX_TIME
    /\ RateLimited(last_exc)
    /\ outcome = Raised(last_exc)

\* C5: whenever an invocation raises, what reaches the caller is the very
\* exception of its last failed attempt, whatever its type.
C5_ExceptionReachesCallerUnchanged ==
    (pc = "idle" /\ outcome.kind = "raise") => outcome.exc = last_exc

\* C6: the keys of the _prepare_params output are among the keys of
\* self.kwargs.
C6_OutputKeysAreDefaultKeys ==
    prepared.called => (DOMAIN prepared.result) \subseteq (DOMAIN kwargs)

\* C6 witness: the caller gave the unknown key stop and it is not in the output.
C6_Witness ==
    /\ prepared.called
    /\ "stop" \in ItemKeys(prepared.parameters)
    /\ "stop" \notin DOMAIN prepared.result
    /\ "temperature" \in DOMAIN prepared.result

\* C7: a caller's max_tokens = v is in the output as max_output_tokens = v,
\* and max_tokens is never a key of the output.
C7_MaxTokensRenamed ==
    prepared.called =>
        /\ "max_tokens" \notin DOMAIN prepared.result
        /\ "max_tokens" \in ItemKeys(prepared.parameters) =>
               /\ "max_output_tokens" \in DOMAIN prepared.result
               /\ prepared.result["max_output_tokens"] =
                      ItemValue(prepared.parameters, "max_tokens")

\* C8 as claimed: the output temperature is 0.7 when the merged n is above 1
\* and the merged temperature 0.0, the merged temperature when n is above 1
\* and it is not 0.0, and the merged temperature whenever the input has no n.
C8_TemperatureAsClaimed ==
    prepared.called =>
        /\ (MergedHasN /\ MergedN > 1 /\ MergedTemperature = 0) =>
               prepared.result["temperature"] = ForcedTemperature
        /\ (MergedHasN /\ MergedN > 1 /\ MergedTemperature # 0) =>
               prepared.result["temperature"] = MergedTemperature
        /\ "n" \notin ItemKeys(prepared.parameters) =>
               prepared.result["temperature"] = MergedTemperature

\* C8, amended: the output temperature is 0.7 when the merged n is above 1
\* and the merged temperature 0.0, the merged temperature when n is above 1
\* and it is not 0.0, and the merged temperature whenever neither the input
\* nor self.kwargs has n.
C8_TemperatureRule ==
    prepared.called =>
        /\ (MergedHasN /\ MergedN > 1 /\ MergedTemperature = 0) =>
               prepared.result["temperature"] = ForcedTemperature
        /\ (MergedHasN /\ MergedN > 1 /\ MergedTemperature # 0) =>
               prepared.result["temperature"] = MergedTemperature
        /\ ~MergedHasN =>
               prepared.result["temperature"] = MergedTemperature

\* C8 witness: n = 2 with temperature 0.0 from the caller gave 0.7.
C8_Witness ==
    /\ prepared.called
    /\ prepared.parameters = << <<"temperature", 0>>, <<"n", 2>> >>
    /\ prepared.result["temperature"] = ForcedTemperature
    /\ kwargs["temperature"] = DefaultTemperature

\* C9: n is no key of the _prepare_params output, nor of the parameters of a
\* request sent to the remote service.
C9_NoNInOutput ==
    /\ prepared.called => "n" \notin DOMAIN prepared.result
    /\ req # NoRequest => "n" \notin DOMAIN req.parameters

\* C9 witness: a request went out for a call that gave n, on an adapter
\* constructed with n.
C9_Witness ==
    /\ pc = "attempt"
    /\ "n" \in ItemKeys(options)
    /\ "n" \in DOMAIN kwargs
    /\ "n" \notin DOMAIN req.parameters

\* C10: no step changes self.kwargs or the endpoint identifier, and the
\* parameters of every request are those of the construction-time defaults
\* and the call's own options.
C10_DefaultsAreFixed ==
    [][/\ kwargs' = kwargs
       /\ endpoint_id' = endpoint_id
       /\ pc' = "attempt" =>
              req' = BuildRequest(endpoint_id, prompt',
                                  _prepare_params(kwargs, options'))]_vars

\* C10 witness: a call that met the temperature rule returned, a second one
\* is running, and self.kwargs still holds n and temperature 0.0.
C10_Witness ==
    /\ pc = "attempt" /\ Len(history) = 1
    /\ history[1].kwargs = << <<"n", 2>>, <<"temperature", 0>> >>
    /\ kwargs["temperature"] = 0 /\ "n" \in DOMAIN kwargs
    /\ tries > 1

====
